---- MODULE Spec2Model ----
(***************************************************************************)
(* Model of the calculator repository.                                     *)
(*                                                                         *)
(*  - the expression pipeline of src/unnamed/part_000:                     *)
(*      tokenize -> handleUnaryMinus -> shuntingYard -> evalRPN ->         *)
(*      formatResult, orchestrated by calculate(expr);                     *)
(*  - the button calculator of src/calc.js (the `state` object and its     *)
(*    handlers).                                                           *)
(*                                                                         *)
(* Strings are sequences of one-character strings.  Numbers are exact      *)
(* rationals <<n, d>> in lowest terms with d > 0; the bounds keep every    *)
(* value far from the range where IEEE doubles overflow, so Infinity and   *)
(* NaN do not occur.                                                       *)
(***************************************************************************)
EXTENDS Integers, Sequences, FiniteSets, TLC

\* ------------------------------------------------------------------ bounds
\* longest input over the full alphabet (digits, '.', operators,
\* parentheses, blank, an invalid character)
MaxLen == 3
\* longest input over the arithmetic alphabet (digits, operators, parentheses)
MaxArithLen == 4
\* longest input over the alphabet of signs and quotients (digits, '-', '/')
MaxSignLen == 5
\* fractional digits printed for a non-integer value
MaxFracDigits == 6

Digits == {"0", "1", "2", "3", "4", "5", "6", "7", "8", "9"}
SymChars == {"+", "-", "*", "/", "(", ")"}
ArithChars == {"0", "2"} \cup SymChars
SignChars == {"0", "2", "-", "/"}
InputChars == ArithChars \cup {".", " ", "@"}

RECURSIVE StringsUpTo(_, _)
StringsUpTo(chars, n) ==
    IF n = 0 THEN {<<>>}
    ELSE LET shorter == StringsUpTo(chars, n - 1)
         IN  shorter \cup {Append(s, c) : s \in {t \in shorter : Len(t) = n - 1}, c \in chars}

Inputs ==
    StringsUpTo(InputChars, MaxLen) \cup StringsUpTo(ArithChars, MaxArithLen)
        \cup StringsUpTo(SignChars, MaxSignLen)

\* --------------------------------------------------------------- rationals
Abs(n) == IF n < 0 THEN -n ELSE n

RECURSIVE Gcd(_, _)
Gcd(a, b) == IF b = 0 THEN a ELSE Gcd(b, a % b)

Rat(n, d) ==
    LET g == Gcd(Abs(n), Abs(d))
        s == IF d < 0 THEN -1 ELSE 1
    IN  <<(s * n) \div g, (s * d) \div g>>

Zero == <<0, 1>>
RatAdd(a, b) == Rat(a[1] * b[2] + b[1] * a[2], a[2] * b[2])
RatSub(a, b) == Rat(a[1] * b[2] - b[1] * a[2], a[2] * b[2])
RatMul(a, b) == Rat(a[1] * b[1], a[2] * b[2])
RatDiv(a, b) == Rat(a[1] * b[2], a[2] * b[1])
RatNeg(a) == <<-a[1], a[2]>>
RatFloor(a) == a[1] \div a[2]

RECURSIVE Pow10(_)
Pow10(k) == IF k = 0 THEN 1 ELSE 10 * Pow10(k - 1)

DigitVal(c) == CHOOSE v \in 0..9 : <<"0", "1", "2", "3", "4", "5", "6", "7", "8", "9">>[v + 1] = c
DigitChar(v) == <<"0", "1", "2", "3", "4", "5", "6", "7", "8", "9">>[v + 1]

\* ------------------------------------------------------------------ tokens
Num(v) == [type |-> "number", num |-> v, sym |-> ""]
Sym(c) == [type |-> "string", num |-> Zero, sym |-> c]
IsNum(t) == t.type = "number"
IsSym(t, c) == t.type = "string" /\ t.sym = c

\* a stage's outcome: a value, or a thrown Error with its message
Ok(v) == [ok |-> TRUE, val |-> v, msg |-> <<>>]
Throw(m) == [ok |-> FALSE, val |-> <<>>, msg |-> m]

InvalidCharacter ==
    <<"I", "n", "v", "a", "l", "i", "d", " ", "c", "h", "a", "r", "a", "c", "t", "e", "r">>
MalformedExpression ==
    <<"M", "a", "l", "f", "o", "r", "m", "e", "d", " ", "e", "x", "p", "r", "e", "s", "s", "i", "o", "n">>
MismatchedParentheses ==
    <<"M", "i", "s", "m", "a", "t", "c", "h", "e", "d", " ", "p", "a", "r", "e", "n", "t", "h", "e", "s", "e", "s">>
DivisionByZero ==
    <<"D", "i", "v", "i", "s", "i", "o", "n", " ", "b", "y", " ", "z", "e", "r", "o">>

\* ---------------------------------------------------------------- tokenize
isDigit(c) == c \in Digits
isSpace(c) == c \in {" ", "\t", "\n", "\r"}

\* expr.replace(/\s+/g, "")
stripWhitespace(expr) == SelectSeq(expr, LAMBDA c : ~isSpace(c))

\* numberEnd with the hasDot test dropped: a run swallows every '.'
RECURSIVE numberEnd_anyDots(_, _, _)
numberEnd_anyDots(s, j, hasDot) ==
    IF j <= Len(s) /\ (isDigit(s[j]) \/ s[j] = ".")
    THEN numberEnd_anyDots(s, j + 1, hasDot \/ s[j] = ".")
    ELSE j

\* the inner while loop of tokenize: first index after the run of digits
\* (with at most one '.') that starts at j
RECURSIVE numberEnd(_, _, _)
numberEnd(s, j, hasDot) ==
    IF j <= Len(s) /\ (isDigit(s[j]) \/ (s[j] = "." /\ ~hasDot))
    THEN numberEnd(s, j + 1, hasDot \/ s[j] = ".")
    ELSE j

\* value of a run of digits with at most one '.': n counts the digits read,
\* k the digits read after the '.'
RECURSIVE parseDigits(_, _, _, _, _)
parseDigits(s, i, n, k, seenDot) ==
    IF i > Len(s) THEN Rat(n, Pow10(k))
    ELSE IF s[i] = "." THEN parseDigits(s, i + 1, n, k, TRUE)
    ELSE parseDigits(s, i + 1, 10 * n + DigitVal(s[i]), IF seenDot THEN k + 1 ELSE k, seenDot)

\* JavaScript's parseFloat on the strings that occur here: an optional '-',
\* then the longest run of digits with at most one '.'; NaN when that run
\* has no digit (".", "Error", "")
parseFloat(s) ==
    LET neg == Len(s) >= 1 /\ s[1] = "-"
        start == IF neg THEN 2 ELSE 1
        run == SubSeq(s, start, numberEnd(s, start, FALSE) - 1)
        v == parseDigits(run, 1, 0, 0, FALSE)
    IN  IF \E i \in 1..Len(run) : isDigit(run[i])
        THEN [nan |-> FALSE, val |-> IF neg THEN RatNeg(v) ELSE v]
        ELSE [nan |-> TRUE, val |-> Zero]

\* tokenizeFrom with the final else dropped: an unknown character is skipped
RECURSIVE tokenizeFrom_skipsUnknown(_, _, _)
tokenizeFrom_skipsUnknown(exprClean, i, tokens) ==
    IF i > Len(exprClean) THEN Ok(tokens)
    ELSE LET char == exprClean[i] IN
         IF isDigit(char) \/ (char = "." /\ i + 1 <= Len(exprClean) /\ isDigit(exprClean[i + 1]))
         THEN LET j == numberEnd(exprClean, i, FALSE)
              IN  tokenizeFrom_skipsUnknown(exprClean, j,
                      Append(tokens, Num(parseFloat(SubSeq(exprClean, i, j - 1)).val)))
         ELSE IF char \in SymChars
         THEN tokenizeFrom_skipsUnknown(exprClean, i + 1, Append(tokens, Sym(char)))
         ELSE tokenizeFrom_skipsUnknown(exprClean, i + 1, tokens)

RECURSIVE tokenizeFrom(_, _, _)
tokenizeFrom(exprClean, i, tokens) ==
    IF i > Len(exprClean) THEN Ok(tokens)
    ELSE LET char == exprClean[i] IN
         IF isDigit(char) \/ (char = "." /\ i + 1 <= Len(exprClean) /\ isDigit(exprClean[i + 1]))
         THEN LET j == numberEnd(exprClean, i, FALSE)
              IN  tokenizeFrom(exprClean, j,
                               Append(tokens, Num(parseFloat(SubSeq(exprClean, i, j - 1)).val)))
         ELSE IF char \in SymChars
         THEN tokenizeFrom(exprClean, i + 1, Append(tokens, Sym(char)))
         ELSE Throw(InvalidCharacter)

tokenize(expr) ==
    LET exprClean == stripWhitespace(expr)
    IN  IF exprClean = <<>> THEN Throw(MalformedExpression)
        ELSE tokenizeFrom(exprClean, 1, <<>>)

\* -------------------------------------------------------- handleUnaryMinus
BinaryChars == {"+", "-", "*", "/"}

handleUnaryMinus(tokens) ==
    [i \in 1..Len(tokens) |->
        IF IsSym(tokens[i], "-")
           /\ (i = 1 \/ (tokens[i - 1].type = "string" /\ tokens[i - 1].sym \in {"("} \cup BinaryChars))
        THEN Sym("NEG")
        ELSE tokens[i]]

\* ------------------------------------------------------------ shuntingYard
precedence(op) ==
    IF op \in {"+", "-"} THEN 1
    ELSE IF op \in {"*", "/"} THEN 2
    ELSE IF op = "NEG" THEN 3
    ELSE 0

isOperator(token) == token.type = "string" /\ token.sym \in {"+", "-", "*", "/", "NEG"}

Top(stack) == stack[Len(stack)]
Pop(stack) == SubSeq(stack, 1, Len(stack) - 1)

\* popHigher with > in place of >=
RECURSIVE popHigher_strict(_, _, _)
popHigher_strict(token, out, ops) ==
    IF Len(ops) > 0
       /\ ~IsSym(Top(ops), "(")
       /\ isOperator(Top(ops))
       /\ precedence(Top(ops).sym) > precedence(token.sym)
    THEN popHigher_strict(token, Append(out, Top(ops)), Pop(ops))
    ELSE [out |-> out, ops |-> ops]

\* lines 91-96: [out, ops] after popping to the output queue every operator
\* on top of the stack whose precedence is >= the incoming token's
RECURSIVE popHigher(_, _, _)
popHigher(token, out, ops) ==
    IF Len(ops) > 0
       /\ ~IsSym(Top(ops), "(")
       /\ isOperator(Top(ops))
       /\ precedence(Top(ops).sym) >= precedence(token.sym)
    THEN popHigher(token, Append(out, Top(ops)), Pop(ops))
    ELSE [out |-> out, ops |-> ops]

\* lines 107-114: pop to the output queue until a '(' is popped
RECURSIVE popToLeftParen(_, _)
popToLeftParen(out, ops) ==
    IF Len(ops) = 0 THEN [out |-> out, ops |-> ops, foundLeft |-> FALSE]
    ELSE IF IsSym(Top(ops), "(") THEN [out |-> out, ops |-> Pop(ops), foundLeft |-> TRUE]
    ELSE popToLeftParen(Append(out, Top(ops)), Pop(ops))

\* popRemaining without the parenthesis test
RECURSIVE popRemaining_unchecked(_, _)
popRemaining_unchecked(out, ops) ==
    IF Len(ops) = 0 THEN Ok(out)
    ELSE popRemaining_unchecked(Append(out, Top(ops)), Pop(ops))

\* lines 123-129: drain the operator stack, throwing on a parenthesis
RECURSIVE popRemaining(_, _)
popRemaining(out, ops) ==
    IF Len(ops) = 0 THEN Ok(out)
    ELSE IF Top(ops).type = "string" /\ Top(ops).sym \in {"(", ")"}
    THEN Throw(MismatchedParentheses)
    ELSE popRemaining(Append(out, Top(ops)), Pop(ops))

\* ----------------------------------------------------------------- evalRPN
applyOperator(op, operands) ==
    CASE op = "+" -> Ok(RatAdd(operands[2], operands[1]))
      [] op = "-" -> Ok(RatSub(operands[2], operands[1]))
      [] op = "*" -> Ok(RatMul(operands[2], operands[1]))
      [] op = "/" -> IF operands[1] = Zero THEN Throw(DivisionByZero)
                     ELSE Ok(RatDiv(operands[2], operands[1]))
      [] op = "NEG" -> Ok(RatNeg(operands[1]))
      [] OTHER -> Throw(MalformedExpression)

RECURSIVE evalFrom(_, _, _)
evalFrom(rpn, i, stack) ==
    IF i > Len(rpn)
    THEN IF Len(stack) # 1 THEN Throw(MalformedExpression) ELSE Ok(stack[1])
    ELSE LET token == rpn[i] IN
         IF IsNum(token) THEN evalFrom(rpn, i + 1, Append(stack, token.num))
         ELSE IF isOperator(token) THEN
             IF token.sym = "NEG" THEN
                 IF Len(stack) < 1 THEN Throw(MalformedExpression)
                 ELSE LET operand == Top(stack)
                          result == applyOperator(token.sym, <<operand>>)
                      IN  IF result.ok THEN evalFrom(rpn, i + 1, Append(Pop(stack), result.val))
                          ELSE result
             ELSE
                 IF Len(stack) < 2 THEN Throw(MalformedExpression)
                 ELSE LET right == Top(stack)
                          left == Top(Pop(stack))
                          result == applyOperator(token.sym, <<right, left>>)
                      IN  IF result.ok
                          THEN evalFrom(rpn, i + 1, Append(Pop(Pop(stack)), result.val))
                          ELSE result
         ELSE evalFrom(rpn, i + 1, stack)

evalRPN(rpn) == evalFrom(rpn, 1, <<>>)

\* ------------------------------------------------------------ formatResult
\* decimal digits of a natural number
RECURSIVE natToString(_)
natToString(n) ==
    IF n < 10 THEN <<DigitChar(n)>> ELSE Append(natToString(n \div 10), DigitChar(n % 10))

intToString(n) == IF n < 0 THEN <<"-">> \o natToString(-n) ELSE natToString(n)

\* digits of rem/den after the decimal point, by long division
RECURSIVE fracDigits(_, _, _)
fracDigits(rem, den, k) ==
    IF rem = 0 \/ k = 0 THEN <<>>
    ELSE <<DigitChar((10 * rem) \div den)>> \o fracDigits((10 * rem) % den, den, k - 1)

\* String(x) of a non-integer x: sign, integer part, '.', fractional digits
\* (cut after MaxFracDigits digits)
numberToString(x) ==
    LET a == Abs(x[1])
    IN  (IF x[1] < 0 THEN <<"-">> ELSE <<>>)
        \o natToString(a \div x[2]) \o <<".">> \o fracDigits(a % x[2], x[2], MaxFracDigits)

\* String(x) of a number
String(x) == IF x[2] = 1 THEN intToString(x[1]) ELSE numberToString(x)

formatResult(x) ==
    IF x = <<RatFloor(x), 1>> THEN String(<<RatFloor(x), 1>>) ELSE String(x)

ERROR_PREFIX == <<"E", "R", "R", "O", "R", ":", " ">>

\* the catch clause returning the bare message
catchError_bare(e) == e.msg

\* calculate's catch clause: `ERROR: ${e.message}`
catchError(e) == ERROR_PREFIX \o e.msg

\* =================================================== state of the pipeline
VARIABLES
    expr,           \* the argument of calculate
    pc,             \* the position inside calculate
    tokens,         \* tokenize's result, then handleUnaryMinus's result
    idx,            \* shuntingYard: index of the next token of the for loop
    outputQueue,    \* shuntingYard: outputQueue
    operatorStack,  \* shuntingYard: operatorStack
    value,          \* evalRPN's result
    result,         \* the string calculate returns
    state           \* calc.js: the calculator's state object

pipeVars == <<expr, pc, tokens, idx, outputQueue, operatorStack, value, result>>
vars == <<expr, pc, tokens, idx, outputQueue, operatorStack, value, result, state>>

\* calc.js createState()
createState ==
    [display |-> <<"0">>, accumulator |-> Zero, operator |-> "null",
     shouldResetDisplay |-> TRUE, lastInput |-> "null", memory |-> Zero]

Init ==
    /\ expr \in Inputs
    /\ pc = "tokenize"
    /\ tokens = <<>>
    /\ idx = 0
    /\ outputQueue = <<>>
    /\ operatorStack = <<>>
    /\ value = Zero
    /\ result = <<>>
    /\ state = createState

\* an Error thrown inside the try block: calculate returns the error string
Caught(e) ==
    /\ result' = catchError(e)
    /\ pc' = "done"

\* const tokens = tokenize(expr)
Tokenize ==
    /\ pc = "tokenize"
    /\ LET r == tokenize(expr)
       IN  IF r.ok
           THEN /\ tokens' = r.val
                /\ pc' = "unary"
                /\ UNCHANGED result
           ELSE /\ Caught(r)
                /\ UNCHANGED tokens
    /\ UNCHANGED <<expr, idx, outputQueue, operatorStack, value, state>>

\* toRPN: const processedTokens = handleUnaryMinus(tokens); shuntingYard starts
HandleUnaryMinus ==
    /\ pc = "unary"
    /\ tokens' = handleUnaryMinus(tokens)
    /\ idx' = 1
    /\ outputQueue' = <<>>
    /\ operatorStack' = <<>>
    /\ pc' = "shunt"
    /\ UNCHANGED <<expr, value, result, state>>

InLoop == pc = "shunt" /\ idx <= Len(tokens)

\* shuntingYard, one iteration of the for loop: a number
SYNumber ==
    /\ InLoop
    /\ IsNum(tokens[idx])
    /\ outputQueue' = Append(outputQueue, tokens[idx])
    /\ idx' = idx + 1
    /\ UNCHANGED <<expr, pc, tokens, operatorStack, value, result, state>>

\* shuntingYard, one iteration of the for loop: an operator
SYOperator ==
    /\ InLoop
    /\ ~IsNum(tokens[idx])
    /\ isOperator(tokens[idx])
    /\ LET r == popHigher(tokens[idx], outputQueue, operatorStack)
       IN  /\ outputQueue' = r.out
           /\ operatorStack' = Append(r.ops, tokens[idx])
    /\ idx' = idx + 1
    /\ UNCHANGED <<expr, pc, tokens, value, result, state>>

\* shuntingYard, one iteration of the for loop: '('
SYLeftParen ==
    /\ InLoop
    /\ IsSym(tokens[idx], "(")
    /\ operatorStack' = Append(operatorStack, tokens[idx])
    /\ idx' = idx + 1
    /\ UNCHANGED <<expr, pc, tokens, outputQueue, value, result, state>>

\* the ')' branch pushing the token, as the '(' branch does
SYRightParen_pushes ==
    /\ InLoop
    /\ IsSym(tokens[idx], ")")
    /\ operatorStack' = Append(operatorStack, tokens[idx])
    /\ idx' = idx + 1
    /\ UNCHANGED <<expr, pc, tokens, outputQueue, value, result, state>>

\* shuntingYard, one iteration of the for loop: ')'
SYRightParen ==
    /\ InLoop
    /\ IsSym(tokens[idx], ")")
    /\ LET r == popToLeftParen(outputQueue, operatorStack)
       IN  /\ outputQueue' = r.out
           /\ operatorStack' = r.ops
           /\ IF r.foundLeft
              THEN /\ idx' = idx + 1
                   /\ UNCHANGED <<pc, result>>
              ELSE /\ Caught(Throw(MismatchedParentheses))
                   /\ UNCHANGED idx
    /\ UNCHANGED <<expr, tokens, value, state>>

\* shuntingYard after the for loop: pop the remaining operators and return
SYPopRemaining ==
    /\ pc = "shunt"
    /\ idx > Len(tokens)
    /\ LET r == popRemaining(outputQueue, operatorStack)
       IN  IF r.ok
           THEN /\ outputQueue' = r.val
                /\ operatorStack' = <<>>
                /\ pc' = "eval"
                /\ UNCHANGED result
           ELSE /\ Caught(r)
                /\ UNCHANGED <<outputQueue, operatorStack>>
    /\ UNCHANGED <<expr, tokens, idx, value, state>>

\* const result = evalRPN(rpn)
EvalRPN ==
    /\ pc = "eval"
    /\ LET r == evalRPN(outputQueue)
       IN  IF r.ok
           THEN /\ value' = r.val
                /\ pc' = "format"
                /\ UNCHANGED result
           ELSE /\ Caught(r)
                /\ UNCHANGED value
    /\ UNCHANGED <<expr, tokens, idx, outputQueue, operatorStack, state>>

\* return formatResult(result)
FormatResult ==
    /\ pc = "format"
    /\ result' = formatResult(value)
    /\ pc' = "done"
    /\ UNCHANGED <<expr, tokens, idx, outputQueue, operatorStack, value, state>>

Next ==
    \/ Tokenize
    \/ HandleUnaryMinus
    \/ SYNumber
    \/ SYOperator
    \/ SYLeftParen
    \/ SYRightParen
    \/ SYPopRemaining
    \/ EvalRPN
    \/ FormatResult

Spec == Init /\ [][Next]_vars

\* ================================================== reference definitions
\* Standard infix arithmetic over the raw token sequence, by recursive
\* descent:  E ::= T {(+|-) T}   T ::= F {(*|/) F}   F ::= n | (E) | -F.
\* A parse is [ok, i, v, dz]: whether a phrase was read, the index after it,
\* its value, and whether some divisor inside it is zero.
NoParse == [ok |-> FALSE, i |-> 0, v |-> Zero, dz |-> FALSE]

RefApply(op, l, r) ==
    [ok |-> TRUE, i |-> r.i,
     dz |-> l.dz \/ r.dz \/ (op = "/" /\ r.v = Zero),
     v |-> CASE op = "+" -> RatAdd(l.v, r.v)
             [] op = "-" -> RatSub(l.v, r.v)
             [] op = "*" -> RatMul(l.v, r.v)
             [] op = "/" -> IF r.v = Zero THEN Zero ELSE RatDiv(l.v, r.v)]

RECURSIVE RefExpr(_, _), RefExprRest(_, _), RefTerm(_, _), RefTermRest(_, _), RefFactor(_, _)
RefFactor(ts, i) ==
    IF i > Len(ts) THEN NoParse
    ELSE IF IsNum(ts[i]) THEN [ok |-> TRUE, i |-> i + 1, v |-> ts[i].num, dz |-> FALSE]
    ELSE IF IsSym(ts[i], "-")
    THEN LET f == RefFactor(ts, i + 1)
         IN  IF f.ok THEN [f EXCEPT !.v = RatNeg(f.v)] ELSE NoParse
    ELSE IF IsSym(ts[i], "(")
    THEN LET e == RefExpr(ts, i + 1)
         IN  IF e.ok /\ e.i <= Len(ts) /\ IsSym(ts[e.i], ")")
             THEN [e EXCEPT !.i = e.i + 1]
             ELSE NoParse
    ELSE NoParse

RefTermRest(ts, l) ==
    IF l.ok /\ l.i <= Len(ts) /\ (IsSym(ts[l.i], "*") \/ IsSym(ts[l.i], "/"))
    THEN LET f == RefFactor(ts, l.i + 1)
         IN  IF f.ok THEN RefTermRest(ts, RefApply(ts[l.i].sym, l, f)) ELSE NoParse
    ELSE l

RefTerm(ts, i) == RefTermRest(ts, RefFactor(ts, i))

RefExprRest(ts, l) ==
    IF l.ok /\ l.i <= Len(ts) /\ (IsSym(ts[l.i], "+") \/ IsSym(ts[l.i], "-"))
    THEN LET t == RefTerm(ts, l.i + 1)
         IN  IF t.ok THEN RefExprRest(ts, RefApply(ts[l.i].sym, l, t)) ELSE NoParse
    ELSE l

RefExpr(ts, i) == RefExprRest(ts, RefTerm(ts, i))

\* the whole token sequence read as one expression
RefParse(ts) ==
    LET e == RefExpr(ts, 1)
    IN  IF e.ok /\ e.i = Len(ts) + 1 THEN e ELSE NoParse

\* the raw tokens of the input, when it tokenizes
Tokenizes == tokenize(expr).ok
RawTokens == tokenize(expr).val
RefOfInput == RefParse(RawTokens)

\* parentheses of a sequence (of characters or of tokens' symbols) balance:
\* no ')' without an earlier unmatched '(' and no '(' left open
RECURSIVE ParenDepthOK(_, _, _)
ParenDepthOK(syms, i, depth) ==
    IF i > Len(syms) THEN depth = 0
    ELSE IF syms[i] = "(" THEN ParenDepthOK(syms, i + 1, depth + 1)
    ELSE IF syms[i] = ")" THEN depth > 0 /\ ParenDepthOK(syms, i + 1, depth - 1)
    ELSE ParenDepthOK(syms, i + 1, depth)

BalancedChars(s) == ParenDepthOK(s, 1, 0)
BalancedTokens(ts) == ParenDepthOK([i \in 1..Len(ts) |-> ts[i].sym], 1, 0)

ErrorResult(m) == ERROR_PREFIX \o m
ErrorResults ==
    {ErrorResult(m) : m \in {InvalidCharacter, MalformedExpression,
                             MismatchedParentheses, DivisionByZero}}

\* a formatted number: an optional '-', digits, and optionally '.' and digits
IsNumeral(s) ==
    LET body == IF Len(s) > 0 /\ s[1] = "-" THEN Tail(s) ELSE s
        dots == {i \in 1..Len(body) : body[i] = "."}
    IN  /\ Len(body) > 0
        /\ \A i \in 1..Len(body) : isDigit(body[i]) \/ body[i] = "."
        /\ Cardinality(dots) <= 1
        /\ \A i \in dots : 1 < i /\ i < Len(body)

\* the stripped input holds a character outside [0-9 . + - * / ( )]
HasInvalidChar(s) ==
    \E i \in 1..Len(s) : ~isSpace(s[i]) /\ s[i] \notin Digits \cup SymChars \cup {"."}

\* ------------------------------------------------------------------ claims
Returned == pc = "done"

\* C1: calculate always returns (no step of the pipeline is stuck short of
\* the return), and what it returns is a formatted number or "ERROR: "
\* followed by one of the four messages.
CanStep ==
    \/ pc \in {"tokenize", "unary", "eval", "format"}
    \/ pc = "shunt" /\ idx > Len(tokens)
    \/ InLoop /\ (IsNum(tokens[idx]) \/ isOperator(tokens[idx])
                    \/ IsSym(tokens[idx], "(") \/ IsSym(tokens[idx], ")"))

C1_ReturnsNumberOrKnownError ==
    /\ ~Returned => (CanStep /\ result = <<>>)
    /\ Returned => (result \in ErrorResults \/ IsNumeral(result))

C1_Witness == Returned /\ result = ErrorResult(DivisionByZero)

\* C2: a well-formed expression over integer literals with no zero divisor
\* evaluates to the value of standard infix arithmetic.
C2_MatchesInfixArithmetic ==
    (Returned /\ Tokenizes /\ (\A i \in 1..Len(expr) : expr[i] # ".")
       /\ RefOfInput.ok /\ ~RefOfInput.dz)
    => (result \notin ErrorResults /\ value = RefOfInput.v /\ result = formatResult(RefOfInput.v))

\* C3: a tokenizable input with balanced parentheses that is not a well-formed
\* infix expression yields "Malformed expression" (or "Division by zero"),
\* never a number.
C3_IllFormedIsRejected ==
    (Returned /\ Tokenizes /\ BalancedChars(expr) /\ ~RefOfInput.ok)
    => result \in {ErrorResult(MalformedExpression), ErrorResult(DivisionByZero)}

\* C4: once the conversion has ended, it has failed with "Mismatched
\* parentheses" exactly when the parentheses of its token sequence are
\* unbalanced; with balanced parentheses it has produced its output.
ConversionEnded == tokens # <<>> /\ pc \in {"eval", "format", "done"}

C4_MismatchIffUnbalanced ==
    ConversionEnded =>
        /\ (result = ErrorResult(MismatchedParentheses)) <=> ~BalancedTokens(tokens)
        /\ BalancedTokens(tokens) => (idx = Len(tokens) + 1 /\ operatorStack = <<>>)

C4_Witness ==
    /\ ConversionEnded
    /\ result = ErrorResult(MismatchedParentheses)
    /\ idx = Len(tokens) + 1
    /\ \E i \in 1..Len(tokens) : IsNum(tokens[i])

\* C5: every well-formed expression in which some divisor evaluates to zero
\* makes calculate return "ERROR: Division by zero".
C5_ZeroDivisorIsReported ==
    (Returned /\ Tokenizes /\ RefOfInput.ok /\ RefOfInput.dz)
    => result = ErrorResult(DivisionByZero)

\* C6 (as stated): the arrival of an operator never moves a NEG from the
\* operator stack to the output queue.
CountNEG(seq) == Cardinality({i \in 1..Len(seq) : IsSym(seq[i], "NEG")})
OperatorArrives == InLoop /\ isOperator(tokens[idx])
NegOnTop == operatorStack # <<>> /\ IsSym(Top(operatorStack), "NEG")

Tokenized == pc # "tokenize"

C7_InvalidIffForeignChar ==
    Tokenized => ((result = ErrorResult(InvalidCharacter)) <=> HasInvalidChar(expr))

\* a '.' that tokenize cannot place in a number: not followed by a digit, and
\* not the first '.' after the digits that start a number
DigitBlockStart(s, j) ==
    CHOOSE b \in 1..j : (\A k \in b..j : isDigit(s[k])) /\ (b = 1 \/ ~isDigit(s[b - 1]))

FirstDotOfNumber(s, i) ==
    /\ i > 1
    /\ isDigit(s[i - 1])
    /\ LET b == DigitBlockStart(s, i - 1) IN ~(b > 1 /\ s[b - 1] = ".")

HasStrayDot(s) ==
    \E i \in 1..Len(s) :
        /\ s[i] = "."
        /\ ~(i < Len(s) /\ isDigit(s[i + 1]))
        /\ ~FirstDotOfNumber(s, i)

\* C7 (amended): tokenize fails with "Invalid character" exactly when the
\* stripped input holds a character outside the set or a '.' that is neither
\* followed by a digit nor the first '.' of the number before it; it fails
\* with "Malformed expression" exactly when the stripped input is empty; every
\* other input tokenizes.
C7_InvalidIffForeignCharOrStrayDot ==
    Tokenized =>
        LET clean == stripWhitespace(expr)
            bad == HasInvalidChar(expr) \/ HasStrayDot(clean)
        IN  /\ (result = ErrorResult(InvalidCharacter)) <=> bad
            /\ (clean # <<>> /\ ~bad) => tokens # <<>>
            /\ (clean = <<>>) => result = ErrorResult(MalformedExpression)

C7_Witness ==
    /\ Returned
    /\ result = ErrorResult(InvalidCharacter)
    /\ ~HasInvalidChar(expr)
    /\ \E i \in 1..Len(expr) : isDigit(expr[i])

\* C8: an invalid character anywhere yields "ERROR: Invalid character"
\* whatever else is wrong with the input, and unbalanced parentheses in an
\* input that tokenizes yield "ERROR: Mismatched parentheses" whatever operand
\* mismatch or division by zero it also holds.
C8_EarliestStageErrorWins ==
    Returned =>
        /\ HasInvalidChar(expr) => result = ErrorResult(InvalidCharacter)
        /\ (Tokenizes /\ ~BalancedChars(expr)) => result = ErrorResult(MismatchedParentheses)

C8_Witness ==
    /\ Returned
    /\ result = ErrorResult(MismatchedParentheses)
    /\ \E i \in 1..Len(tokens) - 1 :
          IsSym(tokens[i], "/") /\ IsNum(tokens[i + 1]) /\ tokens[i + 1].num = Zero

\* C9: the operator stack holds only operators and '(' at every step.
C9_StackHoldsOperatorsAndLeftParens ==
    \A i \in 1..Len(operatorStack) :
        isOperator(operatorStack[i]) \/ IsSym(operatorStack[i], "(")

C9_Witness ==
    /\ pc = "shunt"
    /\ idx > 1
    /\ IsSym(tokens[idx - 1], ")")
    /\ operatorStack # <<>>
    /\ outputQueue # <<>>

\* ====================================================== calc.js, the state
\* bounds of the button calculator: digits a display may hold while typing,
\* largest magnitude and the denominators of a computed value
MaxDigits == 2
MaxValue == 4
Denominators == {1, 2}

Keys == {"0", "2", "."}
Operators == {"+", "-", "*", "/"}
ErrorText == <<"E", "r", "r", "o", "r">>

\* a value the bounds admit
Representable(v) == Abs(v[1]) <= MaxValue * v[2] /\ v[2] \in Denominators

DigitCount(s) == Cardinality({i \in 1..Len(s) : isDigit(s[i])})
Includes(s, c) == \E i \in 1..Len(s) : s[i] = c

\* updateDisplay(value): state = { ...state, display: String(value) }
updateDisplay(st, text) == [st EXCEPT !.display = text]

\* parseFloat(state.display) || 0
getDisplayValue(st) ==
    LET p == parseFloat(st.display)
    IN  IF p.nan \/ p.val = Zero THEN Zero ELSE p.val

calculate(a, b, op) ==
    CASE op = "+" -> RatAdd(a, b)
      [] op = "-" -> RatSub(a, b)
      [] op = "*" -> RatMul(a, b)
      [] op = "/" -> IF b = Zero THEN Zero ELSE RatDiv(a, b)
      [] OTHER -> b

\* num.toFixed(10) read back by parseFloat: the value rounded to 10 decimals,
\* which is the value itself for the values the bounds admit (their
\* denominators divide 10^10)
toFixed10(num) == num

formatNumber(num) ==
    IF num = <<RatFloor(num), 1>> THEN String(<<RatFloor(num), 1>>)
    ELSE String(toFixed10(num))

\* Math.sqrt on the values whose root is rational
IsSquare(n) == \E r \in 0..n : r * r = n
Root(n) == CHOOSE r \in 0..n : r * r = n
HasSqrt(v) == IsSquare(v[1]) /\ IsSquare(v[2])
Sqrt(v) == <<Root(v[1]), Root(v[2])>>

InitUI ==
    /\ state = createState
    /\ expr = <<>>
    /\ pc = "idle"
    /\ tokens = <<>>
    /\ idx = 0
    /\ outputQueue = <<>>
    /\ operatorStack = <<>>
    /\ value = Zero
    /\ result = <<>>

handleNumber(num) ==
    /\ IF state.shouldResetDisplay
       THEN state' = [updateDisplay(state, <<num>>) EXCEPT !.shouldResetDisplay = FALSE]
       ELSE LET current == state.display IN
            IF num = "." /\ Includes(current, ".") THEN state' = state
            ELSE IF num = "." /\ current = <<"0">> THEN state' = updateDisplay(state, <<"0", ".">>)
            ELSE IF current = <<"0">> /\ num # "." THEN state' = updateDisplay(state, <<num>>)
            ELSE /\ DigitCount(Append(current, num)) <= MaxDigits
                 /\ state' = updateDisplay(state, Append(current, num))
    /\ UNCHANGED pipeVars

handleOperator(op) ==
    /\ LET current == getDisplayValue(state) IN
       IF state.operator # "null" /\ ~state.shouldResetDisplay
       THEN LET res == calculate(state.accumulator, current, state.operator)
            IN  /\ Representable(res)
                /\ state' = [updateDisplay(state, String(res)) EXCEPT
                                !.accumulator = res, !.operator = op,
                                !.shouldResetDisplay = TRUE]
       ELSE state' = [state EXCEPT !.accumulator = current, !.operator = op,
                                   !.shouldResetDisplay = TRUE]
    /\ UNCHANGED pipeVars

handleEquals ==
    /\ state.operator # "null"
    /\ LET current == getDisplayValue(state)
           res == calculate(state.accumulator, current, state.operator)
       IN  /\ Representable(res)
           /\ state' = [updateDisplay(state, formatNumber(res)) EXCEPT
                           !.accumulator = res, !.operator = "null",
                           !.shouldResetDisplay = TRUE]
    /\ UNCHANGED pipeVars

handleSquare ==
    /\ LET val == getDisplayValue(state)
           res == RatMul(val, val)
       IN  /\ Representable(res)
           /\ state' = [updateDisplay(state, formatNumber(res)) EXCEPT
                           !.shouldResetDisplay = TRUE]
    /\ UNCHANGED pipeVars

handleSqrt ==
    /\ LET val == getDisplayValue(state) IN
       IF val[1] < 0
       THEN state' = updateDisplay(state, ErrorText)
       ELSE /\ HasSqrt(val)
            /\ state' = [updateDisplay(state, formatNumber(Sqrt(val))) EXCEPT
                            !.shouldResetDisplay = TRUE]
    /\ UNCHANGED pipeVars

handleReciprocal ==
    /\ LET val == getDisplayValue(state) IN
       IF val = Zero
       THEN state' = updateDisplay(state, ErrorText)
       ELSE LET res == RatDiv(<<1, 1>>, val)
            IN  /\ Representable(res)
                /\ state' = [updateDisplay(state, formatNumber(res)) EXCEPT
                                !.shouldResetDisplay = TRUE]
    /\ UNCHANGED pipeVars

handlePercent ==
    /\ LET val == getDisplayValue(state)
           res == IF state.operator # "null" /\ state.accumulator # Zero
                  THEN RatDiv(RatMul(state.accumulator, val), <<100, 1>>)
                  ELSE RatDiv(val, <<100, 1>>)
       IN  /\ Representable(res)
           /\ state' = [updateDisplay(state, formatNumber(res)) EXCEPT
                           !.shouldResetDisplay = TRUE]
    /\ UNCHANGED pipeVars

handleToggleSign ==
    /\ LET val == getDisplayValue(state)
       IN  state' = [updateDisplay(state, formatNumber(RatNeg(val))) EXCEPT
                        !.shouldResetDisplay = TRUE]
    /\ UNCHANGED pipeVars

handleBackspace ==
    /\ ~state.shouldResetDisplay
    /\ LET current == state.display IN
       IF Len(current) = 1 \/ (Len(current) = 2 /\ Includes(current, "-"))
       THEN state' = [updateDisplay(state, <<"0">>) EXCEPT !.shouldResetDisplay = TRUE]
       ELSE state' = updateDisplay(state, SubSeq(current, 1, Len(current) - 1))
    /\ UNCHANGED pipeVars

handleCE ==
    /\ state' = [updateDisplay(state, <<"0">>) EXCEPT !.shouldResetDisplay = TRUE]
    /\ UNCHANGED pipeVars

handleClear ==
    /\ state' = updateDisplay(createState, <<"0">>)
    /\ UNCHANGED pipeVars

NextUI ==
    \/ \E num \in Keys : handleNumber(num)
    \/ \E op \in Operators : handleOperator(op)
    \/ handleEquals
    \/ handleSquare
    \/ handleSqrt
    \/ handleReciprocal
    \/ handlePercent
    \/ handleToggleSign
    \/ handleBackspace
    \/ handleCE
    \/ handleClear

SpecUI == InitUI /\ [][NextUI]_vars

\* a decimal numeral, complete or still being typed ("0.", "."): an optional
\* leading '-', then digits with at most one '.'
IsDisplayNumeral(s) ==
    LET body == IF Len(s) > 0 /\ s[1] = "-" THEN Tail(s) ELSE s
    IN  /\ Len(body) > 0
        /\ \A i \in 1..Len(body) : isDigit(body[i]) \/ body[i] = "."
        /\ Cardinality({i \in 1..Len(body) : body[i] = "."}) <= 1

\* C10: the display is exactly 'Error' or a decimal numeral; no handler
\* appends to or truncates the text 'Error'.
C10_DisplayIsErrorOrNumeral ==
    state.display = ErrorText \/ IsDisplayNumeral(state.display)

====
